---- MODULE Spec2Model ----
(***************************************************************************)
(* A model of drizzle-paginator: the DrizzlePaginator class (constructor,  *)
(* fluent setters, paginate) of both source files that define it, the      *)
(* current one (src/unnamed/part_000, two pagination paths) and the        *)
(* earlier one (src/index.ts, subquery path only), the backing store the   *)
(* two statements of a paginate call are executed against, and the free    *)
(* function withSqlPagination.                                             *)
(*                                                                         *)
(* JavaScript values are modelled by records of one shape per kind, so     *)
(* that TLC can compare them: a number that may be NaN is [nan, v], the    *)
(* value of a row's count field is [t, n, s], a string is the sequence of  *)
(* its characters where its text is parsed.                                *)
(***************************************************************************)
EXTENDS Integers, Sequences, FiniteSets, TLC

VARIABLES
  build,    \* the source file modelled: "part_000" or "index"
  alive,    \* a DrizzlePaginator instance exists
  pag,      \* its fields
  ret,      \* what the last operation gave its caller
  call,     \* the paginate call awaiting its two executions
  store,    \* how many rows the base query matches in the backing store
  called,   \* history: orderBy has been called on the instance
  clamped,  \* history: the last page, perPage or paginate(n) call was given
            \* a number below 1
  helper    \* the last call of withSqlPagination: its arguments and result

vars == <<build, alive, pag, ret, call, store, called, clamped, helper>>

---------------------------------------------------------------------------
(* Bounds of the model. *)

\* page() arguments range over -1..MaxPage
MaxPage == 2
\* perPage() and paginate() arguments range over -1..MaxPerPage
MaxPerPage == 2
\* the base query matches 0..MaxRows rows of the store
MaxRows == 3

PageArgs == (0 - 1)..MaxPage
PerPageArgs == (0 - 1)..MaxPerPage

---------------------------------------------------------------------------
(* Values. *)

\* this.sortBy === null
NoSort == "<null>"
\* this.mapper === null
NoMapper == "<null>"

Columns == {"name", "email", "age"}
Directions == {"asc", "desc"}
AllowLists == {<<>>, <<"name">>, <<"name", "email">>}
Mappers == {"m1", "m2"}
CountColumns == {"*", "userId"}
BackendErrors == {"E1", "E2"}

Max(a, b) == IF a >= b THEN a ELSE b
Min(a, b) == IF a <= b THEN a ELSE b

\* a JavaScript number: an integer or NaN
Num(v) == [nan |-> FALSE, v |-> v]
NaN == [nan |-> TRUE, v |-> 0]

\* direction.toUpperCase() and this.sortDirection.toLowerCase()
toUpperCase(d) == IF d = "asc" THEN "ASC" ELSE IF d = "desc" THEN "DESC" ELSE d
toLowerCase(d) == IF d = "ASC" THEN "asc" ELSE IF d = "DESC" THEN "desc" ELSE d

\* columns.includes(column)
includes(list, x) == \E i \in 1..Len(list) : list[i] = x

---------------------------------------------------------------------------
(* Database handles and query objects given to the constructor. *)

\* kind: what typeof db / the value is; execute: db.execute is callable;
\* client: "absent" (no $client member), "nullish" ($client is null or
\* undefined), "noquery" ($client.query is not callable), "query"
DbHandles ==
  [kind : {"null", "undefined"}, execute : {FALSE}, client : {"absent"}]
  \cup [kind : {"primitive"}, execute : {FALSE}, client : {"absent"}]
  \cup [kind : {"object", "function"}, execute : BOOLEAN,
        client : {"absent", "nullish", "noquery", "query"}]

\* reading a member of null or undefined throws a TypeError
ReadThrows(db) == db.kind \in {"null", "undefined"}

\* typeof (db as DrizzleDb).execute === "function"
HasExecute(db) == db.execute

isPostgresDb(db) ==
  /\ db.kind = "object"
  /\ db.client # "absent"
  /\ db.client = "query"

\* the ordering and window a query object has been configured with; limit 0:
\* no LIMIT
NoWindow == [orderBy |-> NoSort, direction |-> "", limit |-> 0, offset |-> 0]

\* kind: "object" or "other"; getSQL, limit, offset, orderBy: the member is
\* callable; inPlace: limit, offset and orderBy configure the object they
\* are called on and return it, where otherwise they return a new object;
\* window: what the object is configured with
QueryShape(obj, g, l, o, ob) ==
  [isObject |-> obj, getSQL |-> g, limit |-> l, offset |-> o, orderBy |-> ob,
   inPlace |-> FALSE, window |-> NoWindow]
OpaqueQuery == QueryShape(TRUE, TRUE, FALSE, FALSE, FALSE)
BuilderQuery == QueryShape(TRUE, TRUE, TRUE, TRUE, TRUE)
Queries == {OpaqueQuery, BuilderQuery}

\* a builder whose window operations configure the receiver
InPlaceQuery == [BuilderQuery EXCEPT !.inPlace = TRUE]
\* an object with callable limit and offset members and no orderBy
LimitOffsetQuery == QueryShape(TRUE, TRUE, TRUE, TRUE, FALSE)
BuilderQueries == {BuilderQuery, InPlaceQuery, LimitOffsetQuery}

isDrizzleQueryBuilder(q) == q.isObject /\ q.limit /\ q.offset

Builds == {"part_000", "index"}

\* private itemsPerPage: number = 10
DefaultPerPage == 10

\* the field initialisers of the class
FieldDefaults(b) ==
  [ baseQuery |-> OpaqueQuery,
    currentPage |-> 1,
    itemsPerPage |-> DefaultPerPage,
    sortBy |-> IF b = "index" THEN "id" ELSE NoSort,
    sortDirection |-> "ASC",
    mapper |-> NoMapper,
    allowedColumns |-> <<>>,
    countColumn |-> "*",
    dbAdapter |-> "unset",
    isDirectQuery |-> FALSE ]

---------------------------------------------------------------------------
(* The backing store and what executing a statement against it returns. *)

\* what SELECT COUNT(<column>) as count FROM (<base query>) as subquery may
\* count when the base query matches s rows: COUNT(*) counts them all,
\* COUNT(column) those where the column is not NULL
CountOf(s, column) == IF column = "*" THEN {s} ELSE 0..s

\* ... LIMIT <limit> OFFSET <offset>: the rows at positions offset+1.. of
\* the base query's result, each row named by its position
Window(s, limit, offset) ==
  [i \in 1..Max(0, Min(limit, s - offset)) |-> offset + i]

\* the value of a row's count field
JsNumber(n) == [t |-> "number", n |-> n, s |-> <<>>]
JsString(s) == [t |-> "string", n |-> 0, s |-> s]
JsNull == [t |-> "null", n |-> 0, s |-> <<>>]

Digits == <<"0", "1", "2", "3", "4", "5", "6", "7", "8", "9">>
IsDigit(c) == \E d \in 1..10 : Digits[d] = c
DigitValue(c) == (CHOOSE d \in 1..10 : Digits[d] = c) - 1

\* the decimal text of n >= 0, as node-postgres returns a bigint count
RECURSIVE DecStr(_)
DecStr(n) == IF n < 10 THEN <<Digits[n + 1]>>
             ELSE Append(DecStr(n \div 10), Digits[(n % 10) + 1])

RECURSIVE DecValue(_)
DecValue(s) == IF s = <<>> THEN 0
               ELSE 10 * DecValue(SubSeq(s, 1, Len(s) - 1)) + DigitValue(s[Len(s)])

\* Number(value), for the values a count field takes here
Number(v) ==
  IF v.t = "number" THEN Num(v.n)
  ELSE IF v.t = "null" THEN Num(0)
  ELSE IF \A i \in 1..Len(v.s) : IsDigit(v.s[i]) THEN Num(DecValue(v.s))
  ELSE NaN

\* a division that rounds down instead of up
MathFloorDiv(total, perPage) ==
  IF total.nan THEN NaN ELSE Num(total.v \div perPage)

\* a page count that is never below 1
MathCeilAtLeast1(total, perPage) ==
  IF total.nan THEN NaN ELSE Num(Max(1, 0 - ((0 - total.v) \div perPage)))

\* Math.ceil(total / perPage) for perPage >= 1
MathCeilDiv(total, perPage) ==
  IF total.nan THEN NaN ELSE Num(0 - ((0 - total.v) \div perPage))

CountRow(has, v) == [hasCount |-> has, count |-> v]
NoCountRows == <<>>

\* the forms the count execution's result takes here: the count as a
\* number or as decimal text in the first row of a rows array, and the
\* results without a usable count
CountForms == {"number", "text", "badtext", "null", "nofield", "empty", "array"}
WellFormedCounts == {"number", "text"}

CountResult(form, n) ==
  IF form = "number" THEN [shape |-> "rows", rows |-> <<CountRow(TRUE, JsNumber(n))>>]
  ELSE IF form = "text"
    THEN [shape |-> "rows", rows |-> <<CountRow(TRUE, JsString(DecStr(n)))>>]
  ELSE IF form = "badtext"
    THEN [shape |-> "rows", rows |-> <<CountRow(TRUE, JsString(<<"a", "b", "c">>))>>]
  ELSE IF form = "null" THEN [shape |-> "rows", rows |-> <<CountRow(TRUE, JsNull)>>]
  ELSE IF form = "nofield" THEN [shape |-> "rows", rows |-> <<CountRow(FALSE, JsNull)>>]
  ELSE IF form = "empty" THEN [shape |-> "rows", rows |-> NoCountRows]
  ELSE [shape |-> "array", rows |-> <<CountRow(TRUE, JsNumber(n))>>]

\* the shapes the data execution's result takes: a record with a rows
\* array, a bare array, or neither
DataShapes == {"rows", "array", "other"}

DataResult(shape, w) == [shape |-> shape, rows |-> IF shape = "other" THEN <<>> ELSE w]

hasRows(r) == r.shape = "rows"
isArray(r) == r.shape = "array"

\* this.mapper!(row)
ApplyMapper(m, row) ==
  IF m = "m1" THEN row + 100 ELSE IF m = "m2" THEN 0 - row ELSE row

\* a map that gives the mapped rows in reverse order
MapRowsReversed(m, rows) ==
  IF m # NoMapper
  THEN [i \in 1..Len(rows) |-> ApplyMapper(m, rows[Len(rows) + 1 - i])]
  ELSE rows

MapRows(m, rows) ==
  IF m # NoMapper THEN [i \in 1..Len(rows) |-> ApplyMapper(m, rows[i])] ELSE rows

---------------------------------------------------------------------------
(* Statements, executions and the PaginationResult. *)

\* an sql`...` statement handed to dbAdapter.execute
CountStatement(column) ==
  [kind |-> "count", column |-> column, orderBy |-> NoSort, direction |-> "",
   limit |-> 0, offset |-> 0]
\* the count statement over a base query that renders with window w
CountStatementOver(column, w) ==
  [kind |-> "count", column |-> column, orderBy |-> w.orderBy,
   direction |-> w.direction, limit |-> w.limit, offset |-> w.offset]
DataStatement(sortBy, direction, limit, offset) ==
  [kind |-> "data", column |-> "*", orderBy |-> sortBy, direction |-> direction,
   limit |-> limit, offset |-> offset]

\* a window operation applied to the query builder
BuilderOp(op, column, direction, n) ==
  [op |-> op, column |-> column, direction |-> direction, n |-> n]

NoCountResult == [shape |-> "other", rows |-> NoCountRows]
NoDataResult == [shape |-> "other", rows |-> <<>>]

\* one of the two promises given to Promise.all; seen: the rows the base
\* query of the statement matched in the store when the statement ran
PendingCount == [st |-> "pending", val |-> NoCountResult, err |-> "", seen |-> 0]
PendingData == [st |-> "pending", val |-> NoDataResult, err |-> "", seen |-> 0]

\* no paginate call is awaiting its executions
NoCall ==
  [phase |-> "none", path |-> "", offset |-> 0, page0 |-> 0, perPage0 |-> 0,
   sent |-> <<>>, native |-> <<>>, count |-> PendingCount, data |-> PendingData]

EmptyResult ==
  [data |-> <<>>, total |-> Num(0), perPage |-> 0, currentPage |-> 0,
   lastPage |-> Num(0), from |-> 0, to |-> 0]

\* what the last operation gave its caller; of: the paginate call it settled
Outcome(kind, err, res, c) == [kind |-> kind, err |-> err, res |-> res, of |-> c]
NoOutcome == Outcome("none", "", EmptyResult, NoCall)
\* a setter that returns a new paginator instead of the one it was called on
ReturnsCopy == Outcome("copy", "", EmptyResult, NoCall)
\* return this
ReturnsThis == Outcome("this", "", EmptyResult, NoCall)

\* let totalItems = 0; if (hasRows(countResult) &&
\*   countResult.rows[0]?.count !== undefined) totalItems = Number(...count)
TotalItems(countResult) ==
  IF hasRows(countResult) /\ Len(countResult.rows) >= 1 /\ countResult.rows[1].hasCount
  THEN Number(countResult.rows[1].count)
  ELSE Num(0)

\* the rows taken from the data result, mapped
ExtractData(path, dataResult, mapper) ==
  IF path = "direct"
  THEN IF isArray(dataResult) THEN MapRows(mapper, dataResult.rows)
       ELSE IF hasRows(dataResult) THEN MapRows(mapper, dataResult.rows)
       ELSE <<>>
  ELSE IF hasRows(dataResult) THEN MapRows(mapper, dataResult.rows)
       ELSE <<>>

\* a to that counts one row too many
ToOfPlusOne(offset, data) == offset + Len(data) + 1

\* to: offset + data.length
ToOf(offset, data) == offset + Len(data)
FromOf(offset) == offset + 1

\* the code after the await of Promise.all, reading the paginator's fields
\* as they are when it runs
BuildResult(c, p) ==
  LET totalItems == TotalItems(c.count.val)
      data == ExtractData(c.path, c.data.val, p.mapper)
  IN [data |-> data,
      total |-> totalItems,
      perPage |-> p.itemsPerPage,
      currentPage |-> p.currentPage,
      lastPage |-> MathCeilDiv(totalItems, p.itemsPerPage),
      from |-> FromOf(c.offset),
      to |-> ToOf(c.offset, data)]

---------------------------------------------------------------------------
(* Construction and the fluent setters. *)

\* withSqlPagination has not been called
NoHelperCall ==
  [done |-> FALSE,
   queryResult |-> [rows |-> <<>>, rowCount |-> [has |-> FALSE, n |-> 0]],
   perPage |-> 0, page |-> 0,
   out |-> [data |-> <<>>, total |-> 0, perPage |-> 0, currentPage |-> 0,
            lastPage |-> [t |-> "finite", v |-> 0], from |-> 0, to |-> 0]]

Init ==
  /\ helper = NoHelperCall
  /\ build \in Builds
  /\ alive = FALSE
  /\ pag = FieldDefaults(build)
  /\ ret = NoOutcome
  /\ call = NoCall
  /\ store \in 0..MaxRows
  /\ called = FALSE
  /\ clamped = FALSE

\* what the constructor does with the database handle: it keeps an adapter
\* with an execute method (the handle itself, or a wrapper of $client.query),
\* or throws
AdapterFor(db) ==
  IF ReadThrows(db) THEN "TypeError"
  ELSE IF HasExecute(db) THEN "execute"
  ELSE IF isPostgresDb(db) THEN "execute"
  ELSE "UnsupportedDatabase"

ConstructorThrows(db) == AdapterFor(db) \in {"TypeError", "UnsupportedDatabase"}

\* new DrizzlePaginator(db, query, countColumn)
Construct(db, query, countColumn) ==
  /\ ~alive
  /\ IF ConstructorThrows(db)
     THEN /\ ret' = Outcome("throw", AdapterFor(db), EmptyResult, NoCall)
          /\ UNCHANGED <<alive, pag>>
     ELSE /\ alive' = TRUE
          /\ pag' = [FieldDefaults(build) EXCEPT
                       !.dbAdapter = AdapterFor(db),
                       !.isDirectQuery =
                          IF build = "part_000" THEN isDrizzleQueryBuilder(query)
                          ELSE FALSE,
                       !.baseQuery = query,
                       !.countColumn = countColumn]
          /\ ret' = Outcome("instance", "", EmptyResult, NoCall)
  /\ UNCHANGED <<build, helper, call, store, called, clamped>>

\* a clamp that lets 0 through: Math.max(0, n)
ClampMin0(n) == Max(0, n)

\* Math.max(1, n)
ClampMin1(n) == Max(1, n)

Page(n) ==
  /\ alive
  /\ pag' = [pag EXCEPT !.currentPage = ClampMin1(n)]
  /\ ret' = ReturnsThis
  /\ clamped' = (n < 1)
  /\ UNCHANGED <<build, helper, alive, call, store, called>>

PerPage(n) ==
  /\ alive
  /\ pag' = [pag EXCEPT !.itemsPerPage = ClampMin1(n)]
  /\ ret' = ReturnsThis
  /\ clamped' = (n < 1)
  /\ UNCHANGED <<build, helper, alive, call, store, called>>

\* an orderBy that keeps whatever column it is given
SortColumnAny(allowed, column) == column

\* the column orderBy keeps
SortColumnFor(allowed, column) ==
  IF Len(allowed) = 0 \/ includes(allowed, column) THEN column ELSE "id"

OrderBy(column, direction) ==
  /\ alive
  /\ pag' = [pag EXCEPT !.sortBy = SortColumnFor(pag.allowedColumns, column),
                        !.sortDirection = toUpperCase(direction)]
  /\ ret' = ReturnsThis
  /\ called' = TRUE
  /\ UNCHANGED <<build, helper, alive, call, store, clamped>>

\* the list allowColumns keeps
AllowListFor(old, columns) == columns

AllowColumns(columns) ==
  /\ alive
  /\ pag' = [pag EXCEPT !.allowedColumns = AllowListFor(pag.allowedColumns, columns)]
  /\ ret' = ReturnsThis
  /\ UNCHANGED <<build, helper, alive, call, store, called, clamped>>

Map(mapperFn) ==
  /\ alive
  /\ pag' = [pag EXCEPT !.mapper = mapperFn]
  /\ ret' = ReturnsThis
  /\ UNCHANGED <<build, helper, alive, call, store, called, clamped>>

---------------------------------------------------------------------------
(* paginate: the code up to the await of Promise.all. *)

\* the path paginate takes
PathOf(p) ==
  IF build = "part_000" /\ p.isDirectQuery /\ isDrizzleQueryBuilder(p.baseQuery)
  THEN "direct" ELSE "subquery"

\* paginateDirectQuery calls a member the query object does not have
DirectPathThrows(p) ==
  \/ ~p.baseQuery.getSQL
  \/ p.sortBy # NoSort /\ ~p.baseQuery.orderBy

\* window operations applied in the wrong order: offset before limit
NativeOpsOffsetFirst(p, offset) ==
  (IF p.sortBy # NoSort
   THEN <<BuilderOp("orderBy", p.sortBy, toLowerCase(p.sortDirection), 0)>>
   ELSE <<>>)
  \o <<BuilderOp("offset", "", "", offset), BuilderOp("limit", "", "", p.itemsPerPage)>>

\* the window operations paginateDirectQuery applies to the query builder
NativeOps(p, offset) ==
  (IF p.sortBy # NoSort
   THEN <<BuilderOp("orderBy", p.sortBy, toLowerCase(p.sortDirection), 0)>>
   ELSE <<>>)
  \o <<BuilderOp("limit", "", "", p.itemsPerPage), BuilderOp("offset", "", "", offset)>>

\* the data statement of the subquery path
SubqueryDataStatement(p, offset) ==
  IF build = "part_000" /\ p.sortBy = NoSort
  THEN DataStatement(NoSort, "", p.itemsPerPage, offset)
  ELSE DataStatement(p.sortBy, p.sortDirection, p.itemsPerPage, offset)

\* an offset that skips the current page as well
OffsetPastPage(p) == p.currentPage * p.itemsPerPage

\* const offset = (this.currentPage - 1) * this.itemsPerPage
OffsetOf(p) == (p.currentPage - 1) * p.itemsPerPage

\* the statements sent through dbAdapter.execute, in order
SentStatements(p, offset) ==
  IF PathOf(p) = "direct"
  THEN <<CountStatementOver(p.countColumn, p.baseQuery.window)>>
  ELSE <<CountStatement(p.countColumn), SubqueryDataStatement(p, offset)>>

StartCall(p) ==
  [phase |-> "awaiting",
   path |-> PathOf(p),
   offset |-> OffsetOf(p),
   page0 |-> p.currentPage,
   perPage0 |-> p.itemsPerPage,
   sent |-> SentStatements(p, OffsetOf(p)),
   native |-> IF PathOf(p) = "direct" THEN NativeOps(p, OffsetOf(p)) ELSE <<>>,
   count |-> PendingCount,
   data |-> PendingData]

\* the perPage argument of paginate: <<>> when it is omitted
PaginateArgs == {<<>>} \cup {<<n>> : n \in PerPageArgs}

\* if (perPage !== undefined) this.itemsPerPage = Math.max(1, perPage)
ApplyOverride(p, arg) ==
  IF arg = <<>> THEN p ELSE [p EXCEPT !.itemsPerPage = ClampMin1(arg[1])]

\* the query object after dataQuery.orderBy(...).limit(...).offset(...): a
\* builder that works in place keeps what the operations set
ApplyWindow(p) ==
  IF PathOf(p) = "direct" /\ ~DirectPathThrows(p) /\ p.baseQuery.inPlace
  THEN [p EXCEPT !.baseQuery.window =
          [orderBy |-> IF p.sortBy # NoSort THEN p.sortBy ELSE @.orderBy,
           direction |-> IF p.sortBy # NoSort THEN toLowerCase(p.sortDirection)
                         ELSE @.direction,
           limit |-> p.itemsPerPage,
           offset |-> OffsetOf(p)]]
  ELSE p

Paginate(arg) ==
  /\ alive
  /\ call.phase = "none"
  /\ pag' = ApplyWindow(ApplyOverride(pag, arg))
  /\ IF PathOf(pag') = "direct" /\ DirectPathThrows(pag')
     THEN /\ ret' = Outcome("rejected", "TypeError", EmptyResult, NoCall)
          /\ call' = call
     ELSE /\ ret' = Outcome("pending", "", EmptyResult, NoCall)
          /\ call' = StartCall(ApplyOverride(pag, arg))
  /\ clamped' = IF arg = <<>> THEN clamped ELSE arg[1] < 1
  /\ UNCHANGED <<build, helper, alive, store, called>>

---------------------------------------------------------------------------
(* The two executions complete, in either order; Promise.all settles. *)

\* the LIMIT and OFFSET of the data query of call c
DataLimit(c) ==
  IF c.path = "direct"
  THEN c.native[CHOOSE i \in 1..Len(c.native) : c.native[i].op = "limit"].n
  ELSE c.sent[2].limit
DataOffset(c) ==
  IF c.path = "direct"
  THEN c.native[CHOOSE i \in 1..Len(c.native) : c.native[i].op = "offset"].n
  ELSE c.sent[2].offset

Unfinished(c) == c.count.st = "pending" \/ c.data.st = "pending"

\* what paginate does when Promise.all fulfils
OnFulfilled(c, p) == Outcome("fulfilled", "", BuildResult(c, p), c)

\* a join that goes on as soon as the count is there
AfterCountOnly(c) ==
  IF c.phase = "awaiting"
  THEN IF c.count.st = "ok"
       THEN /\ ret' = OnFulfilled(c, pag)
            /\ call' = IF Unfinished(c) THEN [c EXCEPT !.phase = "abandoned"] ELSE NoCall
       ELSE /\ call' = c
            /\ ret' = ret
  ELSE /\ call' = NoCall
       /\ ret' = ret

\* a promise of Promise.all fulfils: Promise.all fulfils once both have,
\* and paginate goes on
AfterResolve(c) ==
  IF c.phase = "awaiting"
  THEN IF c.count.st = "ok" /\ c.data.st = "ok"
       THEN /\ ret' = OnFulfilled(c, pag)
            /\ call' = NoCall
       ELSE /\ call' = c
            /\ ret' = ret
  ELSE /\ call' = NoCall
       /\ ret' = ret

\* what is left of call c once Promise.all has rejected: the execution
\* still pending is left to finish, nothing is executed again
Abandon(c) == IF Unfinished(c) THEN [c EXCEPT !.phase = "abandoned"] ELSE NoCall

\* a paginate that wraps the backend's error in one of its own
OnRejectedWrapped(c, e) == Outcome("rejected", "PaginationError", EmptyResult, c)

\* what paginate does when Promise.all rejects with error e
OnRejected(c, e) == Outcome("rejected", e, EmptyResult, c)

\* a promise of Promise.all rejects: Promise.all rejects with its error at
\* once, and so does paginate
AfterReject(c, e) ==
  IF c.phase = "awaiting"
  THEN /\ ret' = OnRejected(c, e)
       /\ call' = Abandon(c)
  ELSE /\ call' = NoCall
       /\ ret' = ret

Executing(c) == c.phase \in {"awaiting", "abandoned"}

\* the rows the base query of statement st matches in a store of s rows
Matched(st, s) ==
  IF st.limit = 0 THEN s ELSE Len(Window(s, st.limit, st.offset))

CountResolves(form, n) ==
  /\ Executing(call)
  /\ call.count.st = "pending"
  /\ n \in CountOf(Matched(call.sent[1], store), call.sent[1].column)
  /\ AfterResolve([call EXCEPT !.count =
        [st |-> "ok", val |-> CountResult(form, n), err |-> "",
         seen |-> Matched(call.sent[1], store)]])
  /\ UNCHANGED <<build, helper, alive, pag, store, called, clamped>>

CountRejects(e) ==
  /\ Executing(call)
  /\ call.count.st = "pending"
  /\ AfterReject([call EXCEPT !.count =
        [st |-> "err", val |-> NoCountResult, err |-> e, seen |-> store]], e)
  /\ UNCHANGED <<build, helper, alive, pag, store, called, clamped>>

DataResolves(shape) ==
  /\ Executing(call)
  /\ call.data.st = "pending"
  /\ AfterResolve([call EXCEPT !.data =
        [st |-> "ok",
         val |-> DataResult(shape, Window(store, DataLimit(call), DataOffset(call))),
         err |-> "", seen |-> store]])
  /\ UNCHANGED <<build, helper, alive, pag, store, called, clamped>>

DataRejects(e) ==
  /\ Executing(call)
  /\ call.data.st = "pending"
  /\ AfterReject([call EXCEPT !.data =
        [st |-> "err", val |-> NoDataResult, err |-> e, seen |-> store]], e)
  /\ UNCHANGED <<build, helper, alive, pag, store, called, clamped>>

---------------------------------------------------------------------------
(* Other clients of the store commit between the steps of the paginator. *)

InsertRow ==
  /\ store < MaxRows
  /\ store' = store + 1
  /\ UNCHANGED <<build, helper, alive, pag, ret, call, called, clamped>>

DeleteRow ==
  /\ store > 0
  /\ store' = store - 1
  /\ UNCHANGED <<build, helper, alive, pag, ret, call, called, clamped>>

---------------------------------------------------------------------------
(* The caller keeps the query object it gave the constructor: this.baseQuery *)
(* is a reference to it, and the caller can add and remove its members.      *)

QueryMembers == {"getSQL", "limit", "offset", "orderBy"}

\* query[member] = a function, or delete query[member]
SetMember(member, callable) ==
  /\ alive
  /\ pag.baseQuery[member] # callable
  /\ pag' = [pag EXCEPT !.baseQuery = [@ EXCEPT ![member] = callable]]
  /\ UNCHANGED <<build, helper, alive, ret, call, store, called, clamped>>

---------------------------------------------------------------------------
(* withSqlPagination: the free function that slices a result already in    *)
(* memory.  It is the same in both source files.                           *)

\* the result of a division: a finite integer, NaN or Infinity
Finite(v) == [t |-> "finite", v |-> v]
NotANumber == [t |-> "NaN", v |-> 0]
Infinity == [t |-> "Infinity", v |-> 0]

\* Math.ceil(a / b) for integers a >= 0 and b
MathCeil(a, b) ==
  IF b > 0 THEN Finite(0 - ((0 - a) \div b))
  ELSE IF b < 0 THEN Finite(0 - (a \div (0 - b)))
  ELSE IF a = 0 THEN NotANumber
  ELSE Infinity

\* where Array.prototype.slice puts an index: a negative one counts from
\* the end, and the index is kept within 0..len
RelativeIndex(i, len) == IF i < 0 THEN Max(len + i, 0) ELSE Min(i, len)

\* rows.slice(start, end): the rows at the 0-based indexes from start up to
\* end, end excluded
slice(rows, start, end) ==
  LET from0 == RelativeIndex(start, Len(rows))
      to0 == RelativeIndex(end, Len(rows))
  IN [i \in 1..Max(to0 - from0, 0) |-> rows[from0 + i]]

\* the rowCount of a pg QueryResult: a number, or null
RowCounts == [has : {TRUE}, n : 0..MaxRows] \cup {[has |-> FALSE, n |-> 0]}

\* the results given to withSqlPagination: up to MaxRows rows, each named by
\* its 0-based index in the array, and a rowCount
QueryResults ==
  [rows : {[i \in 1..k |-> i - 1] : k \in 0..MaxRows}, rowCount : RowCounts]

\* a total counted from the rows instead of taken from rowCount
HelperTotalRecount(queryResult) == Len(queryResult.rows)

\* const totalItems = queryResult.rowCount ?? 0
HelperTotal(queryResult) ==
  IF queryResult.rowCount.has THEN queryResult.rowCount.n ELSE 0

withSqlPagination(queryResult, perPage, page) ==
  LET totalItems == HelperTotal(queryResult)
      offset == (page - 1) * perPage
      data == slice(queryResult.rows, offset, offset + perPage)
      totalPages == MathCeil(totalItems, perPage)
  IN [data |-> data,
      total |-> totalItems,
      perPage |-> perPage,
      currentPage |-> page,
      lastPage |-> totalPages,
      from |-> offset + 1,
      to |-> offset + Len(data)]

\* a call of withSqlPagination
WithSqlPagination(queryResult, perPage, page) ==
  /\ helper' = [done |-> TRUE, queryResult |-> queryResult,
                perPage |-> perPage, page |-> page,
                out |-> withSqlPagination(queryResult, perPage, page)]
  /\ UNCHANGED <<build, alive, pag, ret, call, store, called, clamped>>

---------------------------------------------------------------------------
(* Specifications.  The fields of the paginator are set independently of   *)
(* one another, so each specification lets the client use the part of the  *)
(* interface its properties are about.                                     *)

\* paging: construction, page, perPage, paginate, and a backend whose
\* executions resolve in every form or fail
Next ==
  \/ \E db \in DbHandles, q \in Queries : Construct(db, q, "*")
  \/ \E n \in PageArgs : Page(n)
  \/ \E n \in PerPageArgs : PerPage(n)
  \/ \E a \in PaginateArgs : Paginate(a)
  \/ \E f \in CountForms, n \in 0..MaxRows : CountResolves(f, n)
  \/ \E e \in BackendErrors : CountRejects(e)
  \/ \E sh \in DataShapes : DataResolves(sh)
  \/ \E e \in BackendErrors : DataRejects(e)

Spec == Init /\ [][Next]_vars

\* sorting: orderBy, allowColumns and paginate, and a backend that answers
NextSort ==
  \/ \E db \in DbHandles, q \in Queries, cc \in CountColumns : Construct(db, q, cc)
  \/ \E c \in Columns, d \in Directions : OrderBy(c, d)
  \/ \E l \in AllowLists : AllowColumns(l)
  \/ Paginate(<<>>)
  \/ \E f \in WellFormedCounts, n \in 0..MaxRows : CountResolves(f, n)
  \/ DataResolves("rows")

SpecSort == Init /\ [][NextSort]_vars

\* paging while other clients write to the store; the count column is "*"
\* and the backend answers with the count and the rows of the window
NextWrites ==
  \/ \E db \in DbHandles, q \in Queries : Construct(db, q, "*")
  \/ \E n \in PageArgs : Page(n)
  \/ \E n \in PerPageArgs : PerPage(n)
  \/ \E a \in PaginateArgs : Paginate(a)
  \/ \E f \in WellFormedCounts : CountResolves(f, store)
  \/ \E sh \in {"rows", "array"} : DataResolves(sh)
  \/ InsertRow
  \/ DeleteRow

SpecWrites == Init /\ [][NextWrites]_vars

\* the caller changes the members of the query object between the calls
NextQuery ==
  \/ \E db \in DbHandles, q \in Queries : Construct(db, q, "*")
  \/ \E m \in QueryMembers, b \in BOOLEAN : SetMember(m, b)
  \/ Paginate(<<>>)
  \/ \E f \in WellFormedCounts : CountResolves(f, store)
  \/ DataResolves("rows")

SpecQuery == Init /\ [][NextQuery]_vars

\* paginate called again and again on query builders of every kind
NextBuilder ==
  \/ \E db \in DbHandles, q \in BuilderQueries : Construct(db, q, "*")
  \/ \E n \in PageArgs : Page(n)
  \/ \E d \in Directions : OrderBy("name", d)
  \/ Paginate(<<>>)
  \/ \E f \in WellFormedCounts, n \in 0..MaxRows : CountResolves(f, n)
  \/ DataResolves("rows")

SpecBuilder == Init /\ [][NextBuilder]_vars

\* mapping: map and paginate, and a backend that answers in every shape
NextMap ==
  \/ \E db \in DbHandles, q \in Queries : Construct(db, q, "*")
  \/ \E m \in Mappers : Map(m)
  \/ Paginate(<<>>)
  \/ \E f \in WellFormedCounts : CountResolves(f, store)
  \/ \E sh \in DataShapes : DataResolves(sh)

SpecMap == Init /\ [][NextMap]_vars

\* the raw-result helper, given every result, page size and page number
NextSlice ==
  \E qr \in QueryResults, n \in PerPageArgs, p \in PageArgs :
    WithSqlPagination(qr, n, p)

SpecSlice == Init /\ [][NextSlice]_vars

\* the five fluent setters, in any order
NextSetters ==
  \/ \E db \in DbHandles, q \in Queries : Construct(db, q, "*")
  \/ \E n \in PageArgs : Page(n)
  \/ \E n \in PerPageArgs : PerPage(n)
  \/ \E c \in Columns, d \in Directions : OrderBy(c, d)
  \/ \E l \in AllowLists : AllowColumns(l)
  \/ \E m \in Mappers : Map(m)

SpecSetters == Init /\ [][NextSetters]_vars

---------------------------------------------------------------------------
(* Properties. *)

Fulfilled == ret.kind = "fulfilled"
Rejected == ret.kind = "rejected"

\* C1: every result of paginate, on both paths, has from = (p-1)*n + 1 and
\* to = (p-1)*n + data.length, where p >= 1 is the current page and n >= 1
\* the items per page the call ran with; so to - from + 1 = data.length
\* whenever data is not empty.
C1_FromTo ==
  Fulfilled =>
    LET p == ret.of.page0
        n == ret.of.perPage0
        r == ret.res
    IN (p >= 1 /\ n >= 1) =>
         /\ r.from = (p - 1) * n + 1
         /\ r.to = (p - 1) * n + Len(r.data)
         /\ (Len(r.data) > 0 => r.to - r.from + 1 = Len(r.data))

\* the partial last page of the direct path: page 2 of 2 per page over 3 rows
C1_Witness ==
  /\ Fulfilled
  /\ ret.of.path = "direct"
  /\ ret.of.page0 = 2 /\ ret.of.perPage0 = 2
  /\ Len(ret.res.data) = 1
  /\ ret.res.from = 3 /\ ret.res.to = 3

\* C2: in every result of paginate with a total >= 0, lastPage is
\* ceil(total / perPage) for the perPage of the same result: the least
\* integer k with k * perPage >= total.
C2_LastPage ==
  (Fulfilled /\ ~ret.res.total.nan /\ ret.res.total.v >= 0 /\ ret.res.perPage >= 1) =>
    /\ ~ret.res.lastPage.nan
    /\ ret.res.lastPage.v * ret.res.perPage >= ret.res.total.v
    /\ (ret.res.lastPage.v - 1) * ret.res.perPage < ret.res.total.v

\* 3 rows at 2 per page make 2 pages
C2_Witness ==
  /\ Fulfilled
  /\ ret.res.total = Num(3)
  /\ ret.res.perPage = 2
  /\ ret.res.lastPage = Num(2)

\* a step of page, perPage or paginate given a number below 1 is the step
\* the same call given 1 makes, and it returns as that call does
C3_Step ==
  \A n \in (PageArgs \cup PerPageArgs) :
    n <= 0 =>
      /\ Page(n) =>
           /\ pag' = [pag EXCEPT !.currentPage = 1]
           /\ ret' = ReturnsThis /\ call' = call
      /\ PerPage(n) =>
           /\ pag' = [pag EXCEPT !.itemsPerPage = 1]
           /\ ret' = ReturnsThis /\ call' = call
      /\ Paginate(<<n>>) =>
           /\ pag' = [pag EXCEPT !.itemsPerPage = 1]
           /\ ret'.kind = "pending"
           /\ call'.perPage0 = 1
           /\ call'.offset = pag.currentPage - 1
           /\ DataLimit(call') = 1

\* C3: after any page(n), perPage(n) and paginate(n) calls with integers
\* the current page and the items per page are at least 1; a call with
\* n <= 0 leaves the paginator as the same call with n = 1 does and raises
\* no error, the perPage override of paginate included.
C3_Clamp ==
  /\ [](alive => pag.currentPage >= 1 /\ pag.itemsPerPage >= 1)
  /\ [][C3_Step]_vars

\* paginate(n) with n below 1 has started a call with one item per page
C3_Witness ==
  /\ clamped
  /\ call.phase = "awaiting"
  /\ ret.kind = "pending"
  /\ pag.itemsPerPage = 1
  /\ pag.currentPage = 2
  /\ call.offset = 1

Elems(seq) == {seq[i] : i \in 1..Len(seq)}

\* a step of orderBy keeps the requested column when the allow-list of the
\* moment is empty or holds it, and "id" otherwise, and returns; a step of
\* allowColumns leaves the given list as the allow-list
C4_Step ==
  /\ \A c \in Columns, d \in Directions :
       OrderBy(c, d) =>
         /\ pag'.sortBy = (IF pag.allowedColumns = <<>> \/ c \in Elems(pag.allowedColumns)
                           THEN c ELSE "id")
         /\ ret' = ReturnsThis
  /\ \A l \in AllowLists : AllowColumns(l) => pag'.allowedColumns = l

\* C4: orderBy(column, direction) sets the sort column to the requested
\* column exactly when the allow-list configured at that moment is empty
\* or contains it, and to the fallback "id" otherwise, raising no error;
\* allowColumns(list) replaces the whole allow-list, the empty list being
\* no restriction.
C4_OrderBy == [][C4_Step]_vars

\* orderBy has fallen back to "id": no call asks for that column, and the
\* current file has no sort column before orderBy
C4_Witness ==
  /\ build = "part_000"
  /\ called
  /\ pag.sortBy = "id"
  /\ pag.allowedColumns = <<"name", "email">>

\* the data query of call c is ordered
HasOrdering(c) ==
  IF c.path = "direct"
  THEN \E i \in 1..Len(c.native) : c.native[i].op = "orderBy"
  ELSE c.sent[2].orderBy # NoSort

\* paginate has just started a call: no setter has run since
JustStarted == ret.kind = "pending" /\ call.phase = "awaiting"

\* C5: the data query of a paginate call is ordered exactly when orderBy
\* was called before it: without orderBy the data statement of the
\* subquery path has no ORDER BY and the builder's orderBy is not invoked.
C5_NoOrdering == JustStarted => (HasOrdering(call) <=> called)

\* the handle has neither a callable execute nor a $client with a callable
\* query
Unrecognized(db) == ~db.execute /\ db.client # "query"

C6_Step ==
  \A db \in DbHandles, q \in Queries, cc \in CountColumns :
    (Construct(db, q, cc) /\ Unrecognized(db)) =>
      /\ ret'.kind = "throw"
      /\ ret'.err = "UnsupportedDatabase"
      /\ ~alive'
      /\ call' = NoCall

\* C6: constructing with a handle that has neither a callable execute nor
\* a $client with a callable query (null, undefined and non-objects
\* included) throws the unsupported-database error, makes no instance and
\* executes nothing.
C6_Unsupported == [][C6_Step]_vars

\* the count field holds a number, as a number or as decimal text
IsNumeric(v) ==
  \/ v.t = "number"
  \/ v.t = "string" /\ v.s # <<>> /\ \A i \in 1..Len(v.s) : IsDigit(v.s[i])
NumericValue(v) == IF v.t = "number" THEN v.n ELSE DecValue(v.s)

\* C7: total is the numeric value of the count field of the count
\* result's first row, and 0 whenever that is absent or malformed (no rows
\* array, no first row, no count field, a count that is not a number);
\* paginate returns a result in each case.
C7_Total ==
  Fulfilled =>
    LET cr == ret.of.count.val
    IN IF /\ cr.shape = "rows" /\ Len(cr.rows) >= 1
          /\ cr.rows[1].hasCount /\ IsNumeric(cr.rows[1].count)
       THEN ret.res.total = Num(NumericValue(cr.rows[1].count))
       ELSE ret.res.total = Num(0)

Kinds(stmts) == [k \in {"count", "data"} |->
                   Cardinality({i \in 1..Len(stmts) : stmts[i].kind = k})]

C8_Step ==
  /\ \A e \in BackendErrors :
       (call.phase = "awaiting" /\ (CountRejects(e) \/ DataRejects(e))) =>
          /\ ret'.kind = "rejected"
          /\ ret'.err = e
          /\ ret'.res = EmptyResult
  /\ (call.phase # "none" /\ call'.phase # "none") =>
          /\ call'.sent = call.sent
          /\ call'.native = call.native
          /\ (call.count.st # "pending" => call'.count = call.count)
          /\ (call.data.st # "pending" => call'.data = call.data)

\* C8: when the count or the data execution fails while paginate awaits,
\* paginate fails with that very error and returns no result; a result is
\* returned only when both succeeded; no statement is executed twice.
C8_Propagates ==
  /\ [](Fulfilled => ret.of.count.st = "ok" /\ ret.of.data.st = "ok")
  /\ [](call.phase # "none" =>
          Kinds(call.sent)["count"] = 1 /\ Kinds(call.sent)["data"] <= 1)
  /\ [][C8_Step]_vars

\* the count succeeded, the data execution failed with E2, and so did
\* paginate
C8_Witness ==
  /\ Rejected
  /\ ret.err = "E2"
  /\ ret.of.count.st = "ok"
  /\ ret.of.data.st = "err" /\ ret.of.data.err = "E2"

\* paginate has settled from a call
Settled == ret.kind \in {"fulfilled", "rejected"} /\ ret.of.phase # "none"

\* C9 as claimed: paginate does not settle, with a result or an error,
\* until both executions have completed or failed.
C9_SettlesAfterBoth == Settled => ~Unfinished(ret.of)

\* both executions of call c have been issued
IssuedBoth(c) ==
  IF c.path = "direct"
  THEN Len(c.sent) = 1 /\ c.native # <<>>
  ELSE Len(c.sent) = 2

\* C9, amended: both executions are issued when the call starts, each can
\* complete while the other is pending, a result is returned only once
\* both have succeeded, and paginate fails as soon as one of them fails,
\* with that error, without waiting for the other.
C9_Join ==
  /\ call.phase = "awaiting" => IssuedBoth(call)
  /\ (call.phase = "awaiting" /\ call.count.st = "pending") =>
        ENABLED CountResolves("number", store)
  /\ (call.phase = "awaiting" /\ call.data.st = "pending") =>
        ENABLED DataResolves("rows")
  /\ Fulfilled => ret.of.count.st = "ok" /\ ret.of.data.st = "ok"
  /\ (Rejected /\ ret.of.phase # "none") =>
        \/ ret.of.count.st = "err" /\ ret.err = ret.of.count.err
        \/ ret.of.data.st = "err" /\ ret.err = ret.of.data.err

\* paginate has failed with the count's error while the data execution is
\* still pending
C9_Witness ==
  /\ Rejected
  /\ ret.of.count.st = "err"
  /\ ret.of.data.st = "pending"
  /\ call.phase = "abandoned"

\* C10 as claimed: whatever other clients write between the two
\* executions, a result with rows has to <= total.
C10_Snapshot ==
  (Fulfilled /\ Len(ret.res.data) > 0) =>
     ~ret.res.total.nan /\ ret.res.to <= ret.res.total.v

\* C10, amended: a result with rows has to <= total when the base query
\* matched the same number of rows at both executions (the count column
\* being "*" and the backend returning the count and the window's rows).
C10_SameState ==
  (Fulfilled /\ Len(ret.res.data) > 0 /\ ret.of.count.seen = ret.of.data.seen) =>
     ~ret.res.total.nan /\ ret.res.to <= ret.res.total.v

\* the last, partial page of an unchanged store of 3 rows: to = total = 3
C10_Witness ==
  /\ Fulfilled
  /\ ret.of.count.seen = 3 /\ ret.of.data.seen = 3
  /\ Len(ret.res.data) = 1
  /\ ret.res.to = 3
  /\ ret.res.total = Num(3)

\* the path the constructor chose: isDirectQuery is set there and nowhere
\* else
ChosenPath == IF pag.isDirectQuery THEN "direct" ELSE "subquery"

\* C11: the classification of the query is decided once in the constructor
\* and fixed: every paginate call takes the path chosen at construction,
\* whatever happens to the members of the query object afterwards.
C11_FixedPath == JustStarted => call.path = ChosenPath

\* the names of the window operations applied to the builder, in order
OpNames(ops) == [i \in 1..Len(ops) |-> ops[i].op]

\* C12: on the composable path paginate sends one statement, the count,
\* through the adapter and applies to the query object orderBy (only if a
\* sort is set), then limit(itemsPerPage), then offset(offset), the data
\* query running through the object itself; on the opaque path it sends two
\* statements, count and data, through the adapter.
C12_Statements ==
  JustStarted =>
    IF call.path = "direct"
    THEN /\ Len(call.sent) = 1
         /\ call.sent[1] = CountStatement(pag.countColumn)
         /\ OpNames(call.native) =
              (IF pag.sortBy # NoSort THEN <<"orderBy">> ELSE <<>>) \o <<"limit", "offset">>
         /\ call.native[Len(call.native) - 1].n = pag.itemsPerPage
         /\ call.native[Len(call.native)].n = (pag.currentPage - 1) * pag.itemsPerPage
         /\ pag.sortBy # NoSort =>
              /\ call.native[1].column = pag.sortBy
              /\ toUpperCase(call.native[1].direction) = pag.sortDirection
    ELSE /\ Len(call.sent) = 2
         /\ call.sent[1] = CountStatement(pag.countColumn)
         /\ call.sent[2].kind = "data"
         /\ call.native = <<>>

\* a call on the composable path after orderBy("name", "desc"): three
\* operations on the builder, one statement through the adapter
C12_Witness ==
  /\ JustStarted
  /\ call.path = "direct"
  /\ Len(call.sent) = 1
  /\ Len(call.native) = 3
  /\ call.native[1].column = "name" /\ call.native[1].direction = "desc"

\* the rows the data execution of the settled call returned
ReturnedRows == ret.of.data.val.rows

\* C13: on both paths the data of a result is the rows the data execution
\* returned, whether it returned a bare sequence of rows or a record with a
\* rows array: data.length is the number of rows returned.
C13_BothShapes ==
  (Fulfilled /\ ret.of.data.val.shape \in {"rows", "array"}) =>
     /\ Len(ret.res.data) = Len(ReturnedRows)
     /\ (pag.mapper = NoMapper => ret.res.data = ReturnedRows)

\* the rows paginate took from the data result of the settled call
RowsRead == ExtractData(ret.of.path, ret.of.data.val, NoMapper)

\* the data of a result is the mapper of the moment applied to each row
\* read, in order, or the rows themselves without a mapper
C14_Data ==
  Fulfilled =>
    /\ Len(ret.res.data) = Len(RowsRead)
    /\ \A i \in 1..Len(RowsRead) :
         ret.res.data[i] = (IF pag.mapper = NoMapper THEN RowsRead[i]
                            ELSE ApplyMapper(pag.mapper, RowsRead[i]))

\* map installs its argument, and nothing else changes the mapper
C14_Step ==
  /\ \A m \in Mappers : Map(m) => pag'.mapper = m
  /\ (alive /\ pag'.mapper # pag.mapper) => \E m \in Mappers : Map(m)

\* C14: with a mapper installed by map(fn) the data of every later result
\* is fn applied to each returned row, once per row and in the order
\* returned; without a mapper data is the returned rows unchanged; the
\* mapper used is that of the most recent map call.
C14_Mapped == []C14_Data /\ [][C14_Step]_vars

\* three rows through the mapper m2
C14_Witness ==
  /\ Fulfilled
  /\ pag.mapper = "m2"
  /\ RowsRead = <<1, 2, 3>>
  /\ ret.res.data = <<0 - 1, 0 - 2, 0 - 3>>

\* the 0-based offset withSqlPagination is asked for
HelperOffset == (helper.page - 1) * helper.perPage

\* the rows of the given result whose 0-based index is in
\* [offset, offset + perPage), in order
InWindow(row) == HelperOffset <= row /\ row < HelperOffset + helper.perPage
RowsInWindow == SelectSeq(helper.queryResult.rows, InWindow)

\* C15: withSqlPagination(result, perPage, page) returns as data exactly
\* the rows of result.rows whose 0-based index lies in
\* [offset, offset + perPage), offset = (page - 1) * perPage, in order and
\* no other row, for every page and perPage it is given, with
\* from = offset + 1 and to = offset + data.length; it performs no I/O.
C15_Slice ==
  helper.done =>
    /\ helper.out.data = RowsInWindow
    /\ helper.out.from = HelperOffset + 1
    /\ helper.out.to = HelperOffset + Len(helper.out.data)
    /\ call = NoCall

\* the row count the caller declared, 0 when it declared none
DeclaredTotal ==
  IF helper.queryResult.rowCount.has THEN helper.queryResult.rowCount.n ELSE 0

\* the caller declared fewer rows than it gave
DeclaredTooSmall ==
  /\ helper.done
  /\ helper.queryResult.rowCount.has
  /\ helper.queryResult.rowCount.n < Len(helper.queryResult.rows)

\* C16 as claimed: when the declared total is smaller than the number of
\* rows, lastPage and to both follow the declared total and not the data:
\* to does not pass the total.
C16_DeclaredTo ==
  (DeclaredTooSmall /\ helper.page >= 1 /\ helper.perPage >= 1) =>
     /\ helper.out.total = DeclaredTotal
     /\ helper.out.lastPage = MathCeil(DeclaredTotal, helper.perPage)
     /\ (Len(helper.out.data) > 0 => helper.out.to <= helper.out.total)

\* C16, amended: total is the declared row count, 0 when it is absent,
\* whatever the rows are; lastPage is ceil(total / perPage) of that total;
\* to is offset + data.length, the length of the slice actually returned.
C16_Total ==
  helper.done =>
    /\ helper.out.total = DeclaredTotal
    /\ (helper.perPage >= 1 =>
          /\ helper.out.lastPage.t = "finite"
          /\ helper.out.lastPage.v * helper.perPage >= DeclaredTotal
          /\ (helper.out.lastPage.v - 1) * helper.perPage < DeclaredTotal)
    /\ helper.out.to = HelperOffset + Len(helper.out.data)

\* three rows declared as one, the first page of two: total 1, one page,
\* and to = 2
C16_Witness ==
  /\ DeclaredTooSmall
  /\ Len(helper.queryResult.rows) = 3 /\ helper.queryResult.rowCount.n = 1
  /\ helper.perPage = 2 /\ helper.page = 1
  /\ helper.out.total = 1
  /\ helper.out.lastPage = Finite(1)
  /\ Len(helper.out.data) = 2
  /\ helper.out.to = 2

\* the pagination state of the paginator
PaginationState(p) ==
  <<p.currentPage, p.itemsPerPage, p.sortBy, p.sortDirection,
    p.allowedColumns, p.mapper, p.countColumn>>

C17_Step ==
  \A a \in PaginateArgs :
    Paginate(a) => PaginationState(pag') = PaginationState(pag)

\* C17: the pagination state is mutated by the fluent setters only: a
\* paginate call, with or without a perPage argument, leaves the current
\* page, the items per page, the sort column and direction, the allow-list,
\* the mapper and the count column as they were.
C17_PaginateFrame == [][C17_Step]_vars

\* each setter returns the paginator it was called on and leaves every
\* field but its own as it was
C18_Step ==
  /\ \A n \in PageArgs :
       Page(n) => /\ ret'.kind = "this"
                  /\ pag' = [pag EXCEPT !.currentPage = pag'.currentPage]
  /\ \A n \in PerPageArgs :
       PerPage(n) => /\ ret'.kind = "this"
                     /\ pag' = [pag EXCEPT !.itemsPerPage = pag'.itemsPerPage]
  /\ \A c \in Columns, d \in Directions :
       OrderBy(c, d) => /\ ret'.kind = "this"
                        /\ pag' = [pag EXCEPT !.sortBy = pag'.sortBy,
                                              !.sortDirection = pag'.sortDirection]
  /\ \A l \in AllowLists :
       AllowColumns(l) => /\ ret'.kind = "this"
                          /\ pag' = [pag EXCEPT !.allowedColumns = pag'.allowedColumns]
  /\ \A m \in Mappers :
       Map(m) => /\ ret'.kind = "this"
                 /\ pag' = [pag EXCEPT !.mapper = pag'.mapper]
  /\ alive =>
       /\ alive'
       /\ pag'.isDirectQuery = pag.isDirectQuery
       /\ pag'.dbAdapter = pag.dbAdapter
       /\ pag'.baseQuery = pag.baseQuery
       /\ pag'.countColumn = pag.countColumn

\* C18: each setter returns the instance it was called on and changes only
\* its own fields: page the current page, perPage the items per page,
\* orderBy the sort column and direction, allowColumns the allow-list, map
\* the mapper; no setter changes the classification, the adapter, the base
\* query or the count column.
C18_Setters == [][C18_Step]_vars

\* map has just returned on a paginator whose other fields were all set
C18_Witness ==
  /\ ret.kind = "this"
  /\ pag.mapper = "m1"
  /\ pag.currentPage = 2 /\ pag.itemsPerPage = 2
  /\ pag.sortBy = "name" /\ pag.sortDirection = "DESC"
  /\ pag.allowedColumns = <<"name">>
  /\ pag.isDirectQuery

\* C19 as claimed: a result with total 0 has lastPage 0 and no data.
C19_ZeroTotal ==
  (Fulfilled /\ ret.res.total = Num(0)) =>
     ret.res.lastPage = Num(0) /\ ret.res.data = <<>>

\* the total of the settled call is a count the backend gave: the first
\* row of the count result has a numeric count field
Counted ==
  LET cr == ret.of.count.val
  IN /\ cr.shape = "rows" /\ Len(cr.rows) >= 1
     /\ cr.rows[1].hasCount /\ IsNumeric(cr.rows[1].count)

\* C19, amended: a result with total 0 has lastPage 0; its data is empty
\* when the total is a count the backend gave (not the fallback for a
\* missing count, nor a null count) over "*", and the base query matched the
\* same rows at both executions.
C19_ZeroCounted ==
  (Fulfilled /\ ret.res.total = Num(0)) =>
     /\ ret.res.lastPage = Num(0)
     /\ (Counted /\ ret.of.sent[1].column = "*"
           /\ ret.of.count.seen = ret.of.data.seen) => ret.res.data = <<>>

\* an empty store paged on the composable path: the count is 0, no rows
C19_Witness ==
  /\ Fulfilled
  /\ ret.of.path = "direct"
  /\ ret.of.count.val = CountResult("text", 0)
  /\ ret.of.data.val.shape = "array"
  /\ ret.res.total = Num(0)
  /\ ret.res.lastPage = Num(0)
  /\ ret.res.data = <<>>

\* the column the data query of call c is ordered by
OrderColumn(c) == IF c.path = "direct" THEN c.native[1].column ELSE c.sent[2].orderBy

\* C20: whatever the order of the setter calls, a paginator with a
\* non-empty allow-list and a sort column has a sort column that is in the
\* allow-list or is the fallback "id", allowColumns after orderBy included;
\* so no paginate call orders by a column outside a configured allow-list.
C20_AllowList ==
  /\ (alive /\ pag.allowedColumns # <<>> /\ pag.sortBy # NoSort) =>
        pag.sortBy \in Elems(pag.allowedColumns) \cup {"id"}
  /\ (JustStarted /\ pag.allowedColumns # <<>> /\ HasOrdering(call)) =>
        OrderColumn(call) \in Elems(pag.allowedColumns) \cup {"id"}

\* C21: every result of paginate agrees with the window that was queried:
\* from = (currentPage - 1) * perPage + 1 and lastPage = ceil(total /
\* perPage) for the currentPage and perPage of the result, perPage being
\* the LIMIT of the data query, also when page or perPage is called while
\* the call awaits its two executions.
C21_Consistent ==
  (Fulfilled /\ ~ret.res.total.nan) =>
     /\ ret.res.from = (ret.res.currentPage - 1) * ret.res.perPage + 1
     /\ ret.res.perPage = DataLimit(ret.of)
     /\ ret.res.lastPage.v * ret.res.perPage >= ret.res.total.v
     /\ (ret.res.lastPage.v - 1) * ret.res.perPage < ret.res.total.v

\* C22: on the composable path the count statement of every paginate call
\* counts the rows of the caller's original query without ordering or
\* window: the operations applied for the data query leave the query
\* counted as it was, so a later paginate call builds the count statement
\* the first one built.
C22_CountsOriginal ==
  (JustStarted /\ call.path = "direct") =>
     call.sent[1] = CountStatement(pag.countColumn)

\* the members of the query object that paginateDirectQuery calls as window
\* operations for paginator p
WindowOpsCalled(p) ==
  {NativeOps(p, OffsetOf(p))[i].op : i \in 1..Len(NativeOps(p, OffsetOf(p)))}

C23_Step ==
  \A a \in PaginateArgs :
    (Paginate(a) /\ PathOf(ApplyOverride(pag, a)) = "direct") =>
       \A op \in WindowOpsCalled(ApplyOverride(pag, a)) : pag.baseQuery[op]

\* C23: a query classified as composable has the window operations the
\* composable path calls: no paginate call on that path, with or without a
\* sort set, calls limit, offset or orderBy on a query object that lacks it.
C23_WindowOperations == [][C23_Step]_vars

====
